---- MODULE Spec2Model ----
(***************************************************************************)
(* Model of the in-memory vector search engine of finance-ai-pathway2      *)
(* (processing/indexing.py): class VectorStore and class SearchEngine.     *)
(*                                                                         *)
(* Numbers.  Cosine similarities are irrational in general, so a score x   *)
(* is carried as the exact rational sgn(x)*x^2, a reduced pair <<n, d>>    *)
(* with d > 0.  x |-> sgn(x)*x^2 is strictly increasing, so every          *)
(* comparison the code makes on scores (>=, sort order, equality) has the  *)
(* same outcome on this representation in exact arithmetic.  A similarity  *)
(* that numpy computes as 0/0 is the value NaN.  Floating-point rounding   *)
(* is not modelled.                                                        *)
(*                                                                         *)
(* Strings.  A text is the sequence of its whitespace-separated words; a   *)
(* doc_id "prefix_i" is the pair <<prefix, i>>; an Optional argument is a  *)
(* sequence of length 0 (None) or 1.                                       *)
(*                                                                         *)
(* Objects.  A document handed to the SearchEngine is a Python dict that   *)
(* the engine changes in place and stores by reference; its field obj is   *)
(* the identity of the object, so one dict held at several places changes  *)
(* at all of them.                                                         *)
(*                                                                         *)
(* The embedding provider SentenceTransformerModel and the TextProcessor   *)
(* of embeddings.py are modelled as well, and so are threads that run the  *)
(* statements of VectorStore.add one at a time.                            *)
(***************************************************************************)
EXTENDS Integers, Sequences, FiniteSets, TLC

\* ------------------------------------------------------------------ bounds
\* dimension passed to the constructors (384 by default in the source)
Dim == 2
\* a store is not grown beyond this many entries
MaxDocs == 2
\* largest top_k tried by a search (the smallest is -MaxK)
MaxK == 2

\* ----------------------------------------------------------- small helpers
Min(a, b) == IF a <= b THEN a ELSE b

Max(a, b) == IF a >= b THEN a ELSE b

Abs(a) == IF a >= 0 THEN a ELSE -a

RECURSIVE Gcd(_, _)
Gcd(a, b) == IF b = 0 THEN a ELSE Gcd(b, a % b)

\* the reduced pair of the rational n/d, d > 0
Frac(n, d) == LET g == Gcd(Abs(n), d) IN <<n \div g, d \div g>>

NaN == <<0, 0>>

IsNaN(x) == x[2] = 0

\* float comparison a >= b: false as soon as one side is NaN
ScoreGE(a, b) == ~IsNaN(a) /\ ~IsNaN(b) /\ a[1] * b[2] >= b[1] * a[2]

ScoreGT(a, b) == ~IsNaN(a) /\ ~IsNaN(b) /\ a[1] * b[2] > b[1] * a[2]

RECURSIVE SumTo(_, _)
SumTo(f, n) == IF n = 0 THEN 0 ELSE f[n] + SumTo(f, n - 1)

\* np.dot of two vectors of the same length
Dot(v, w) == SumTo([i \in 1..Len(v) |-> v[i] * w[i]], Len(v))

\* the square of np.linalg.norm
NormSq(v) == Dot(v, v)

\* mutant of Cosine: the dot product is not divided by the norms
Cosine_NotNormalised(row, q) ==
    IF NormSq(row) = 0 THEN NaN
    ELSE LET d == Dot(row, q)
         IN  Frac((IF d < 0 THEN -1 ELSE 1) * d * d, 1)

\* mutant of Cosine: a row of zero norm gets the similarity 0 (a small
\* constant added to the denominator) instead of the NaN of 0/0
Cosine_ZeroForZeroNorm(row, q) ==
    IF NormSq(row) = 0 THEN Frac(0, 1)
    ELSE LET d == Dot(row, q)
         IN  Frac((IF d < 0 THEN -1 ELSE 1) * d * d, NormSq(row) * NormSq(q))

\* one entry of `similarities`: dot / (norm(row) * query_norm), query_norm # 0
Cosine(row, q) ==
    IF NormSq(row) = 0 THEN NaN
    ELSE LET d == Dot(row, q)
         IN  Frac((IF d < 0 THEN -1 ELSE 1) * d * d, NormSq(row) * NormSq(q))

\* mutant of SliceTo: the slice keeps one element too many
SliceTo_OneMore(xs, k) ==
    IF k >= 0 THEN SubSeq(xs, 1, Min(k + 1, Len(xs)))
    ELSE SubSeq(xs, 1, Max(Len(xs) + k, 0))

\* Python list slicing  xs[:k]
SliceTo(xs, k) ==
    IF k >= 0 THEN SubSeq(xs, 1, Min(k, Len(xs)))
    ELSE SubSeq(xs, 1, Max(Len(xs) + k, 0))

\* mutant of InsertDesc: an unstable sort, equal scores end up reversed
InsertDesc_TiesReversed(sorted, x) ==
    LET before == {i \in 1..Len(sorted) : ScoreGT(sorted[i][1], x[1])}
        p == IF before = {} THEN 0 ELSE CHOOSE i \in before : \A j \in before : j <= i
    IN  SubSeq(sorted, 1, p) \o <<x>> \o SubSeq(sorted, p + 1, Len(sorted))

\* list.sort(key=lambda x: x[0], reverse=True): stable, descending by score
InsertDesc(sorted, x) ==
    LET before == {i \in 1..Len(sorted) : ~ScoreGT(x[1], sorted[i][1])}
        p == IF before = {} THEN 0 ELSE CHOOSE i \in before : \A j \in before : j <= i
    IN  SubSeq(sorted, 1, p) \o <<x>> \o SubSeq(sorted, p + 1, Len(sorted))

RECURSIVE SortDescFrom(_, _, _)
SortDescFrom(xs, i, acc) ==
    IF i > Len(xs) THEN acc ELSE SortDescFrom(xs, i + 1, InsertDesc(acc, xs[i]))

SortDesc(xs) == SortDescFrom(xs, 1, <<>>)

\* ------------------------------------------------------------ input domains
ZeroVec(n) == [i \in 1..n |-> 0]

UnitVec(n, j) == [i \in 1..n |-> IF i = j THEN 1 ELSE 0]

NegVec(n) == [i \in 1..n |-> IF i = 1 THEN -1 ELSE 0]

OnesVec(n) == [i \in 1..n |-> 1]

\* vectors handed to add: zero norm, opposite directions, a diagonal, and
\* two of the wrong length
AddVectors ==
    {ZeroVec(Dim), UnitVec(Dim, 1), NegVec(Dim), OnesVec(Dim),
     OnesVec(Dim - 1), OnesVec(Dim + 1)}

\* query vectors handed to search
QueryVectors ==
    {ZeroVec(Dim), UnitVec(Dim, 1), UnitVec(Dim, Dim), OnesVec(Dim),
     ZeroVec(Dim + 1), OnesVec(Dim + 1)}

\* Python values held in a metadata dictionary: strings, and objects of a
\* type json cannot serialize
PyStr(x) == [type |-> "str", value |-> x]

PyDatetime(x) == [type |-> "datetime", value |-> x]

\* (metadata, doc_id) arguments of add: two metadata dictionaries without
\* doc_id (None), one with the doc_id "doc_1"
MetaIdArgs ==
    {<<[name |-> PyStr("m1")], <<>>>>,
     <<[name |-> PyStr("m2")], <<>>>>,
     <<[name |-> PyStr("m1")], << <<"doc", 1>> >> >>}

TopKs == (-MaxK)..MaxK

\* thresholds 0.0 (the default) and 0.5
Thresholds == {Frac(0, 1), Frac(1, 4)}

\* ------------------------------------------------------------- VectorStore
EmptyDict == [x \in {} |-> 0]

\* d[k] = v on a Python dict
DictSet(d, k, v) == [x \in (DOMAIN d) \cup {k} |-> IF x = k THEN v ELSE d[x]]

\* VectorStore.__init__; vectors_array is an attribute only once built
VectorStore(dimension) ==
    [dimension |-> dimension, vectors |-> <<>>, metadata |-> <<>>,
     id_to_index |-> EmptyDict, index_built |-> FALSE,
     has_array |-> FALSE, vectors_array |-> <<>>]

\* mutant of AddOp: the dimension test is missing
AddOp_NoDimensionTest(s, vector, metadata, doc_id) ==
    LET id == IF doc_id = <<>> THEN <<"doc", Len(s.vectors)>> ELSE doc_id[1]
        vs == Append(s.vectors, vector)
    IN  [exc |-> "none",
         st  |-> [s EXCEPT !.vectors = vs,
                           !.metadata = Append(s.metadata, metadata),
                           !.id_to_index = DictSet(s.id_to_index, id, Len(vs) - 1),
                           !.index_built = FALSE]]

\* VectorStore.add; exc is the exception that leaves the call, st the store
AddOp(s, vector, metadata, doc_id) ==
    IF Len(vector) # s.dimension
    THEN [exc |-> "ValueError", st |-> s]
    ELSE LET id == IF doc_id = <<>> THEN <<"doc", Len(s.vectors)>> ELSE doc_id[1]
             vs == Append(s.vectors, vector)
         IN  [exc |-> "none",
              st  |-> [s EXCEPT !.vectors = vs,
                                !.metadata = Append(s.metadata, metadata),
                                !.id_to_index = DictSet(s.id_to_index, id, Len(vs) - 1),
                                !.index_built = FALSE]]

\* mutant of BuildIndexOp: the early return on an empty store is missing
BuildIndexOp_NoEmptyTest(s) ==
    [s EXCEPT !.vectors_array = s.vectors, !.has_array = TRUE, !.index_built = TRUE]

\* mutant of BuildIndexOp: the flag is flipped instead of set
BuildIndexOp_FlipsFlag(s) ==
    IF s.vectors = <<>> THEN s
    ELSE [s EXCEPT !.vectors_array = s.vectors, !.has_array = TRUE,
                   !.index_built = ~s.index_built]

\* VectorStore.build_index
BuildIndexOp(s) ==
    IF s.vectors = <<>> THEN s
    ELSE [s EXCEPT !.vectors_array = s.vectors, !.has_array = TRUE,
                   !.index_built = TRUE]

\* the loop over enumerate(similarities) followed by sort and slice
Ranked(rows, metadata, q, top_k, threshold) ==
    LET pairs == [i \in 1..Len(rows) |-> <<Cosine(rows[i], q), metadata[i]>>]
        results == SelectSeq(pairs, LAMBDA p : ScoreGE(p[1], threshold))
    IN  SliceTo(SortDesc(results), top_k)

\* VectorStore.search; out is the returned list
SearchOp(s, q, top_k, threshold) ==
    LET s1 == IF ~s.index_built THEN BuildIndexOp(s) ELSE s
    IN  IF ~s1.index_built \/ Len(s1.vectors) = 0
        THEN [exc |-> "none", st |-> s1, out |-> <<>>]
        ELSE IF NormSq(q) = 0
        THEN [exc |-> "none", st |-> s1, out |-> <<>>]
        ELSE IF ~s1.has_array
        THEN [exc |-> "AttributeError", st |-> s1, out |-> <<>>]
        ELSE IF \E i \in 1..Len(s1.vectors_array) : Len(s1.vectors_array[i]) # Len(q)
        THEN [exc |-> "ValueError", st |-> s1, out |-> <<>>]
        ELSE IF \E i \in 1..Len(s1.vectors_array) :
                    /\ i > Len(s1.metadata)
                    /\ ScoreGE(Cosine(s1.vectors_array[i], q), threshold)
        THEN [exc |-> "IndexError", st |-> s1, out |-> <<>>]
        ELSE [exc |-> "none", st |-> s1,
              out |-> Ranked(s1.vectors_array, s1.metadata, q, top_k, threshold)]

\* -------------------------------------------------------------- JSON files
\* json.dump on one metadata value: TypeError on an object json cannot
\* serialize, a JSON string otherwise
JsonEncodable(v) == v.type = "str"

JsonEncode(v) == [json |-> "string", text |-> v.value]

\* json.load on one metadata value
JsonDecode(j) == [type |-> "str", value |-> j.text]

JsonEncodeDict(m) == [k \in DOMAIN m |-> JsonEncode(m[k])]

JsonDecodeDict(o) == [k \in DOMAIN o |-> JsonDecode(o[k])]

\* no file at the path
NoFile == [kind |-> "absent"]

\* a file whose content is a prefix of a JSON document
Truncated == [kind |-> "truncated"]

\* the dictionary `data` of save, as written by json.dump
JsonFile(s) ==
    [kind |-> "json",
     data |-> [dimension |-> s.dimension,
               vectors |-> s.vectors,
               metadata |-> [i \in 1..Len(s.metadata) |-> JsonEncodeDict(s.metadata[i])],
               id_to_index |-> s.id_to_index]]

\* outcomes of the file system during save
SaveIO == {"ok", "open_error", "write_error"}

\* VectorStore.save: the content of the file afterwards.  open(..., 'w')
\* empties the file before json.dump writes; every exception is logged
\* and swallowed.
SaveOp(s, f, io) ==
    IF io = "open_error" THEN f
    ELSE IF io = "write_error" THEN Truncated
    ELSE IF \E i \in 1..Len(s.metadata) : \E k \in DOMAIN s.metadata[i] :
                ~JsonEncodable(s.metadata[i][k])
    THEN Truncated
    ELSE JsonFile(s)

\* mutant of LoadOp: index_built is not reset
LoadOp_KeepsIndexBuilt(s, f) ==
    IF f.kind # "json" THEN [ok |-> FALSE, st |-> s]
    ELSE [ok |-> TRUE,
          st |-> [s EXCEPT !.dimension = f.data.dimension,
                           !.vectors = f.data.vectors,
                           !.metadata = [i \in 1..Len(f.data.metadata) |->
                                            JsonDecodeDict(f.data.metadata[i])],
                           !.id_to_index = f.data.id_to_index]]

\* mutant of LoadOp: id_to_index is not restored
LoadOp_DropsIdToIndex(s, f) ==
    IF f.kind # "json" THEN [ok |-> FALSE, st |-> s]
    ELSE [ok |-> TRUE,
          st |-> [s EXCEPT !.dimension = f.data.dimension,
                           !.vectors = f.data.vectors,
                           !.metadata = [i \in 1..Len(f.data.metadata) |->
                                            JsonDecodeDict(f.data.metadata[i])],
                           !.index_built = FALSE]]

\* VectorStore.load: the assignments run in source order and stop at the
\* first key the file lacks; ok is the returned boolean
LoadOp(s, f) ==
    IF f.kind # "json" THEN [ok |-> FALSE, st |-> s]
    ELSE LET d  == f.data
             s1 == [s EXCEPT !.dimension = d.dimension]
             s2 == [s1 EXCEPT !.vectors = d.vectors]
             s3 == [s2 EXCEPT !.metadata = [i \in 1..Len(d.metadata) |->
                                               JsonDecodeDict(d.metadata[i])]]
             s4 == [s3 EXCEPT !.id_to_index = d.id_to_index]
         IN  IF "dimension" \notin DOMAIN d THEN [ok |-> FALSE, st |-> s]
             ELSE IF "vectors" \notin DOMAIN d THEN [ok |-> FALSE, st |-> s1]
             ELSE IF "metadata" \notin DOMAIN d THEN [ok |-> FALSE, st |-> s2]
             ELSE IF "id_to_index" \notin DOMAIN d THEN [ok |-> FALSE, st |-> s3]
             ELSE [ok |-> TRUE, st |-> [s4 EXCEPT !.index_built = FALSE]]

\* ------------------------------------------------------------ SearchEngine
\* words of the texts; str.lower() on a word
Lower(w) == IF w = "Apple" THEN "apple" ELSE IF w = "Tesla" THEN "tesla" ELSE w

\* text.lower().split() on a text given as its words
LowerWords(text) == {Lower(text[i]) : i \in 1..Len(text)}

\* dict.get(key, '')
Get(item, key) == IF key \in DOMAIN item THEN item[key] ELSE <<>>

\* queries handed to SearchEngine.search: "Apple earnings" and "Tesla"
Queries == {<<"Apple", "earnings">>, <<"Tesla">>}

\* two hashings of strings: emb is _create_query_embedding, up to the
\* positive scale that cosine ignores; rev tells in which of the two orders
\* a set of two words is iterated; salt is what hash() mixes into the
\* other strings
HashSeeds ==
    {[emb |-> [q \in Queries |-> IF Len(q) = 2 THEN UnitVec(Dim, 1) ELSE OnesVec(Dim)],
      rev |-> FALSE, salt |-> 0],
     [emb |-> [q \in Queries |-> IF Len(q) = 2 THEN OnesVec(Dim) ELSE UnitVec(Dim, 1)],
      rev |-> TRUE, salt |-> 1]}

\* the sequence in which `for word in query_words` visits a set of words
RECURSIVE WordOrder(_, _)
WordOrder(words, rev) ==
    IF words = {} THEN <<>>
    ELSE LET w == CHOOSE x \in words : TRUE
         IN  IF rev THEN Append(WordOrder(words \ {w}, rev), w)
             ELSE <<w>> \o WordOrder(words \ {w}, rev)

\* SearchEngine.__init__
SearchEngine(dimension) ==
    [dimension |-> dimension,
     news_store |-> VectorStore(dimension),
     stocks_store |-> VectorStore(dimension),
     portfolio_store |-> VectorStore(dimension),
     keyword_index |-> EmptyDict]

\* the store attribute, the doc_id prefix (also the doc_type) and the text
\* fields that index_news, index_stocks and index_portfolio use
StoreOf(category) ==
    IF category = "news" THEN "news_store"
    ELSE IF category = "stock" THEN "stocks_store" ELSE "portfolio_store"

TextFields(category) ==
    IF category = "news" THEN <<"title", "summary">>
    ELSE IF category = "stock" THEN <<"name", "sector">> ELSE <<>>

\* item['doc_id'] = doc_id; item['doc_type'] = category
Tagged(item, doc_id, category) ==
    [k \in (DOMAIN item) \cup {"doc_id", "doc_type"} |->
        IF k = "doc_id" THEN doc_id ELSE IF k = "doc_type" THEN category ELSE item[k]]

\* The two assignments above change the caller's dictionary in place, and
\* add stores a reference to it, not a copy: every place of the three
\* metadata lists that holds this dictionary (field obj is its identity)
\* shows the new doc_id and doc_type.
Retagged(e, item) ==
    LET seen(s) == [s EXCEPT !.metadata =
                       [i \in 1..Len(s.metadata) |->
                           IF s.metadata[i].obj = item.obj THEN item ELSE s.metadata[i]]]
    IN  [e EXCEPT !.news_store = seen(@), !.stocks_store = seen(@),
                  !.portfolio_store = seen(@)]

\* self.keyword_index[word].append(doc_id) for every word of words
Posted(index, words, doc_id) ==
    [w \in (DOMAIN index) \cup words |->
        IF w \in words
        THEN Append(IF w \in DOMAIN index THEN index[w] ELSE <<>>, doc_id)
        ELSE index[w]]

\* the loop of index_news / index_stocks / index_portfolio from pair i on
\* (i counts from 0, as enumerate does); zip stops at the shorter list; an
\* exception of add leaves the loop with the earlier pairs indexed and the
\* current item already tagged.  docs[i + 1] is the dictionary as the caller
\* first made it; what the loop reads is its current value, which an earlier
\* pair of this call may have tagged (tagging only overwrites doc_id and
\* doc_type, so tagging the first value gives the same dictionary).
RECURSIVE IndexLoop(_, _, _, _, _)
IndexLoop(e, category, docs, embeddings, i) ==
    IF i >= Min(Len(docs), Len(embeddings)) THEN [exc |-> "none", st |-> e]
    ELSE LET doc_id == <<category, i>>
             item == Tagged(docs[i + 1], doc_id, category)
             e1 == Retagged(e, item)
             r == AddOp(e1[StoreOf(category)], embeddings[i + 1], item, <<doc_id>>)
             fields == TextFields(category)
             words == IF fields = <<>> THEN {}
                      ELSE LowerWords(Get(item, fields[1]) \o Get(item, fields[2]))
         IN  IF r.exc # "none" THEN [exc |-> r.exc, st |-> e1]
             ELSE IndexLoop([e1 EXCEPT ![StoreOf(category)] = r.st,
                                       !.keyword_index = Posted(@, words, doc_id)],
                            category, docs, embeddings, i + 1)

\* doc_scores of _keyword_search as the sequence of its (doc_id, count)
\* items in insertion order, after one more posting
Counted(scores, doc_id) ==
    IF \E j \in 1..Len(scores) : scores[j][1] = doc_id
    THEN [j \in 1..Len(scores) |->
            IF scores[j][1] = doc_id THEN <<doc_id, scores[j][2] + 1>> ELSE scores[j]]
    ELSE Append(scores, <<doc_id, 1>>)

RECURSIVE CountPostings(_, _, _)
CountPostings(scores, postings, j) ==
    IF j > Len(postings) THEN scores
    ELSE CountPostings(Counted(scores, postings[j]), postings, j + 1)

RECURSIVE DocScores(_, _, _, _)
DocScores(index, order, j, scores) ==
    IF j > Len(order) THEN scores
    ELSE DocScores(index, order, j + 1,
                   IF order[j] \in DOMAIN index
                   THEN CountPostings(scores, index[order[j]], 1) ELSE scores)

\* the first of news_store, stocks_store, portfolio_store that knows the
\* doc_id yields the metadata; none does: no result
Resolve(e, doc_id) ==
    LET hits == SelectSeq(<<"news_store", "stocks_store", "portfolio_store">>,
                          LAMBDA f : doc_id \in DOMAIN e[f].id_to_index)
    IN  IF hits = <<>> THEN <<>>
        ELSE << e[hits[1]].metadata[e[hits[1]].id_to_index[doc_id] + 1] >>

RECURSIVE ResolveAll(_, _, _, _)
ResolveAll(e, ranked, n, j) ==
    IF j > Len(ranked) THEN <<>>
    ELSE LET m == Resolve(e, ranked[j][2])
             c == ranked[j][1][1]
         IN  (IF m = <<>> THEN <<>> ELSE << <<Frac(c * c, n * n), m[1]>> >>)
             \o ResolveAll(e, ranked, n, j + 1)

\* SearchEngine._keyword_search
KeywordSearch(e, seed, query, top_k) ==
    LET query_words == LowerWords(query)
        scores == DocScores(e.keyword_index, WordOrder(query_words, seed.rev), 1, <<>>)
        byCount == [j \in 1..Len(scores) |-> <<Frac(scores[j][2], 1), scores[j][1]>>]
    IN  ResolveAll(e, SliceTo(SortDesc(byCount), top_k), Cardinality(query_words), 1)

\* the loop that removes duplicates: the first pair of each doc_id is kept,
\* pairs without doc_id are dropped
RECURSIVE Unique(_, _, _)
Unique(pairs, j, seen) ==
    IF j > Len(pairs) THEN <<>>
    ELSE LET id == Get(pairs[j][2], "doc_id")
         IN  IF id # <<>> /\ id \notin seen
             THEN <<pairs[j]>> \o Unique(pairs, j + 1, seen \cup {id})
             ELSE Unique(pairs, j + 1, seen)

\* mutant of Merge: the sort before the removal of duplicates is missing
Merge_Unsorted(all_results, top_k) == SliceTo(Unique(all_results, 1, {}), top_k)

\* mutant of Merge: the removal of duplicates is missing
Merge_KeepsDuplicates(all_results, top_k) == SliceTo(SortDesc(all_results), top_k)

\* lines 202-212 of search: sort, remove duplicates, cut
Merge(all_results, top_k) == SliceTo(Unique(SortDesc(all_results), 1, {}), top_k)

\* SearchEngine._create_query_embedding: self.dimension values, those of
\* the string hashing for the first Dim of them
QueryEmbedding(e, seed, query) ==
    [i \in 1..e.dimension |-> IF i <= Len(seed.emb[query]) THEN seed.emb[query][i] ELSE 1]

\* one `if ... in doc_types and len(store.vectors) > 0` block of search,
\* run on the state acc reached so far
VectorPart(acc, category, types, seed, query, top_k) ==
    LET f == StoreOf(category)
    IN  IF acc.exc # "none" \/ category \notin types \/ Len(acc.st[f].vectors) = 0
        THEN acc
        ELSE LET r == SearchOp(acc.st[f], QueryEmbedding(acc.st, seed, query), top_k,
                               Frac(0, 1))
             IN  [exc |-> r.exc, st |-> [acc.st EXCEPT ![f] = r.st],
                  out |-> acc.out \o r.out]

\* the three vector searches of search, in source order
VectorCandidates(e, seed, query, top_k, doc_types) ==
    LET types == IF doc_types = <<>> THEN {"news", "stock", "portfolio"} ELSE doc_types[1]
        a0 == [exc |-> "none", st |-> e, out |-> <<>>]
        a1 == VectorPart(a0, "news", types, seed, query, top_k)
        a2 == VectorPart(a1, "stock", types, seed, query, top_k)
    IN  VectorPart(a2, "portfolio", types, seed, query, top_k)

\* the candidate list all_results of search
Candidates(e, seed, query, top_k, doc_types) ==
    LET v == VectorCandidates(e, seed, query, top_k, doc_types)
    IN  IF v.exc # "none" THEN v
        ELSE [v EXCEPT !.out = @ \o KeywordSearch(v.st, seed, query, top_k)]

\* SearchEngine.search
EngineSearchOp(e, seed, query, top_k, doc_types) ==
    LET c == Candidates(e, seed, query, top_k, doc_types)
    IN  IF c.exc # "none" THEN [c EXCEPT !.out = <<>>]
        ELSE [c EXCEPT !.out = Merge(c.out, top_k)]

\* mutant of GetStatsOp: the flag index_built is computed by building the
\* three indexes first
GetStatsOp_BuildsIndexes(e) ==
    LET e1 == [e EXCEPT !.news_store = BuildIndexOp(@),
                        !.stocks_store = BuildIndexOp(@),
                        !.portfolio_store = BuildIndexOp(@)]
    IN  [st |-> e1,
         out |-> [total_documents |-> Len(e.news_store.vectors) + Len(e.stocks_store.vectors)
                                        + Len(e.portfolio_store.vectors),
                  news_documents |-> Len(e.news_store.vectors),
                  stock_documents |-> Len(e.stocks_store.vectors),
                  portfolio_documents |-> Len(e.portfolio_store.vectors),
                  unique_keywords |-> Cardinality(DOMAIN e.keyword_index),
                  index_built |-> /\ e1.news_store.index_built
                                  /\ e1.stocks_store.index_built
                                  /\ e1.portfolio_store.index_built]]

\* SearchEngine.get_stats: the returned dictionary; it reads lengths and
\* flags only, st is the engine afterwards
GetStatsOp(e) ==
    [st |-> e,
     out |-> [total_documents |-> Len(e.news_store.vectors) + Len(e.stocks_store.vectors)
                                    + Len(e.portfolio_store.vectors),
              news_documents |-> Len(e.news_store.vectors),
              stock_documents |-> Len(e.stocks_store.vectors),
              portfolio_documents |-> Len(e.portfolio_store.vectors),
              unique_keywords |-> Cardinality(DOMAIN e.keyword_index),
              index_built |-> /\ e.news_store.index_built
                              /\ e.stocks_store.index_built
                              /\ e.portfolio_store.index_built]]

\* ------------------------------------------------- files of a SearchEngine
\* The Python value of field k of an engine document: published_at holds a
\* datetime object, every other field a str.
PyValue(k, v) == IF k = "published_at" THEN PyDatetime(v) ELSE PyStr(v)

\* an engine document as the dictionary of Python values that json.dump
\* sees (the identity of the object is not a key)
PyDict(item) == [k \in (DOMAIN item) \ {"obj"} |-> PyValue(k, item[k])]

\* a dictionary built by json.load as an engine document: a new object
FromPyDict(m) ==
    [k \in (DOMAIN m) \cup {"obj"} |-> IF k = "obj" THEN "loaded" ELSE m[k].value]

PyStore(s) == [s EXCEPT !.metadata = [i \in 1..Len(s.metadata) |-> PyDict(s.metadata[i])]]

\* store.load(path) on a category store; the metadata list is replaced by
\* new objects once load has reached its assignment
EngineStoreLoad(s, f) ==
    LET r == LoadOp(PyStore(s), f)
        assigned == /\ f.kind = "json"
                    /\ {"dimension", "vectors", "metadata"} \subseteq DOMAIN f.data
    IN  [ok |-> r.ok,
         st |-> [r.st EXCEPT !.metadata =
                    IF assigned
                    THEN [i \in 1..Len(r.st.metadata) |-> FromPyDict(r.st.metadata[i])]
                    ELSE s.metadata]]

\* json.dump(dict(self.keyword_index)) and json.load of it: lists of str
KeywordsFile(index) ==
    [kind |-> "json",
     data |-> [w \in DOMAIN index |->
                 [j \in 1..Len(index[w]) |-> JsonEncode(PyStr(index[w][j]))]]]

KeywordsOf(f) ==
    [w \in DOMAIN f.data |-> [j \in 1..Len(f.data[w]) |-> JsonDecode(f.data[w][j]).value]]

\* dict.update(other)
DictUpdate(d, other) ==
    [k \in (DOMAIN d) \cup (DOMAIN other) |-> IF k \in DOMAIN other THEN other[k] ELSE d[k]]

\* no file at any of the four paths
NoFiles == [news |-> NoFile, stocks |-> NoFile, portfolio |-> NoFile, keywords |-> NoFile]

\* outcomes of the file system during save_index, per file
AllOk == [news |-> "ok", stocks |-> "ok", portfolio |-> "ok", keywords |-> "ok"]

SaveIndexIO ==
    {AllOk, [AllOk EXCEPT !.stocks = "open_error"],
     [AllOk EXCEPT !.keywords = "open_error"], [AllOk EXCEPT !.keywords = "write_error"]}

\* SearchEngine.save_index: the four files afterwards.  The three store
\* saves swallow their exceptions; an exception of the keyword dump is
\* logged; the method returns None in every case.
SaveIndexOp(e, fs, io) ==
    [news |-> SaveOp(PyStore(e.news_store), fs.news, io.news),
     stocks |-> SaveOp(PyStore(e.stocks_store), fs.stocks, io.stocks),
     portfolio |-> SaveOp(PyStore(e.portfolio_store), fs.portfolio, io.portfolio),
     keywords |-> IF io.keywords = "open_error" THEN fs.keywords
                  ELSE IF io.keywords = "write_error" THEN Truncated
                  ELSE KeywordsFile(e.keyword_index)]

\* SearchEngine.load_index: the booleans returned by the three store loads
\* are dropped; ok is the returned boolean
LoadIndexOp(e, fs) ==
    LET e1 == [e EXCEPT !.news_store = EngineStoreLoad(@, fs.news).st,
                        !.stocks_store = EngineStoreLoad(@, fs.stocks).st,
                        !.portfolio_store = EngineStoreLoad(@, fs.portfolio).st]
    IN  IF fs.keywords.kind # "json" THEN [ok |-> FALSE, st |-> e1]
        ELSE [ok |-> TRUE,
              st |-> [e1 EXCEPT !.keyword_index = DictUpdate(@, KeywordsOf(fs.keywords))]]

\* ------------------------------------ embedding providers (embeddings.py)
\* hash(s) % 1000 for the string s = f"{text}_{i}_{n}": some value below
\* 1000 that depends on the text, on i, on n and on the salt of the process
HashMod1000(salt, text, i, n) == (salt * 499 + Len(text) * 211 + i * 37 + n) % 1000

\* SimpleEmbeddingModel.encode: one row per text, its entries in thousandths
SimpleEncode(salt, dimension, texts) ==
    [t \in 1..Len(texts) |->
        [i \in 1..dimension |->
            HashMod1000(salt, texts[t], i - 1, Min(Len(texts[t]), 50))]]

\* names handed to SentenceTransformerModel(model_name)
ModelNames == {"all-MiniLM-L6-v2", "no-such-model"}

\* what `from sentence_transformers import SentenceTransformer` and
\* SentenceTransformer(model_name) do: the model loads, the package is
\* missing, or the model cannot be found or read
LoadOutcomes == {"loaded", "ImportError", "OSError"}

\* no instance has been constructed
NoProvider == [model |-> "none", model_name |-> "none"]

\* SentenceTransformerModel.__init__: only ImportError is caught; exc is the
\* exception that leaves the constructor, p the instance if there is one
ProviderInit(model_name, load) ==
    IF load = "loaded"
    THEN [exc |-> "none", p |-> [model |-> "SentenceTransformer", model_name |-> model_name]]
    ELSE IF load = "ImportError"
    THEN [exc |-> "none", p |-> [model |-> "SimpleEmbeddingModel", model_name |-> "simple"]]
    ELSE [exc |-> load, p |-> NoProvider]

\* SentenceTransformerModel.encode: the rows of the stub, or the shape of
\* what the loaded model computes
ProviderEncode(p, salt, texts) ==
    IF p.model = "SimpleEmbeddingModel"
    THEN [by |-> "SimpleEmbeddingModel", rows |-> SimpleEncode(salt, Dim, texts)]
    ELSE [by |-> "SentenceTransformer", rows |-> [t \in 1..Len(texts) |-> <<>>]]

\* SentenceTransformerModel.get_dimension; reported is what the loaded
\* model answers, <<>> for None
ProviderDimension(p, reported) ==
    IF p.model = "SimpleEmbeddingModel" THEN Dim
    ELSE IF reported # <<>> THEN reported[1] ELSE Dim

\* ------------------------------------------- TextProcessor (embeddings.py)
\* A text handed to preprocess_text is the sequence of its characters: a
\* lowercase and an uppercase letter, the two whitespace characters space
\* and tab, a special character and a full stop.
Chars == {"a", "B", " ", "\t", "!", "."}

\* longest text handed to preprocess_text
MaxChars == 5

\* str.lower() on a character
LowerChar(c) == IF c = "B" THEN "b" ELSE c

StrLower(text) == [i \in 1..Len(text) |-> LowerChar(text[i])]

\* str.isspace() and str.isalnum() on a character
IsSpace(c) == c \in {" ", "\t"}

IsAlnum(c) == c \in {"a", "b", "B"}

\* text.split(): the maximal runs of characters that are not whitespace;
\* word is the run being read
RECURSIVE SplitFrom(_, _, _)
SplitFrom(text, i, word) ==
    IF i > Len(text) THEN (IF word = <<>> THEN <<>> ELSE <<word>>)
    ELSE IF IsSpace(text[i])
    THEN (IF word = <<>> THEN <<>> ELSE <<word>>) \o SplitFrom(text, i + 1, <<>>)
    ELSE SplitFrom(text, i + 1, Append(word, text[i]))

StrSplit(text) == SplitFrom(text, 1, <<>>)

\* ' '.join(words)
RECURSIVE JoinFrom(_, _)
JoinFrom(words, i) ==
    IF i > Len(words) THEN <<>>
    ELSE (IF i = 1 THEN <<>> ELSE <<" ">>) \o words[i] \o JoinFrom(words, i + 1)

StrJoin(words) == JoinFrom(words, 1)

\* ''.join(c for c in text if c.isalnum() or c in ' .,-%$')
KeepChar(c) == IsAlnum(c) \/ c \in {" ", ".", ",", "-", "%", "$"}

StrFilter(text) == SelectSeq(text, KeepChar)

\* str.strip(): leading and trailing whitespace removed
RECURSIVE StrStrip(_)
StrStrip(text) ==
    IF text = <<>> THEN text
    ELSE IF IsSpace(text[1]) THEN StrStrip(Tail(text))
    ELSE IF IsSpace(text[Len(text)]) THEN StrStrip(SubSeq(text, 1, Len(text) - 1))
    ELSE text

\* TextProcessor.preprocess_text
PreprocessText(text) ==
    IF text = <<>> THEN <<>>
    ELSE StrStrip(StrFilter(StrJoin(StrSplit(StrLower(text)))))

\* -------------------------------------- the statements of VectorStore.add
\* threads that call store.add, each once
MaxThreads == 2

Threads == 1..MaxThreads

\* the arguments of the call of thread t: its own metadata, a vector, and
\* doc_id None or a doc_id of its own
ThreadMetadata(t) == [name |-> PyStr(<<"m", t>>)]

ThreadVectors == {UnitVec(Dim, 1), OnesVec(Dim), OnesVec(Dim + 1)}

ThreadDocIds(t) == {<<>>, << <<"id", t>> >>}

\* the frame of a thread that has not called add; vpos and mpos are the
\* places (from 1) at which its appends put the vector and the metadata
NotCalled ==
    [pc |-> "idle", exc |-> "none", vector |-> <<>>, metadata |-> ThreadMetadata(0),
     doc_id |-> <<>>, vpos |-> 0, mpos |-> 0]

\* line 31: the test of the dimension
AddDimensionOk(s, vector) == Len(vector) = s.dimension

\* lines 35-36: the generated doc_id
AddDocId(s, doc_id) == IF doc_id = <<>> THEN << <<"doc", Len(s.vectors)>> >> ELSE doc_id

\* line 38
AddAppendVector(s, vector) == [s EXCEPT !.vectors = Append(@, vector)]

\* line 39
AddAppendMetadata(s, metadata) == [s EXCEPT !.metadata = Append(@, metadata)]

\* mutant of AddSetIndex: the index is the length, not the last position
AddSetIndex_OffByOne(s, doc_id) ==
    [s EXCEPT !.id_to_index = DictSet(@, doc_id, Len(s.vectors))]

\* line 40
AddSetIndex(s, doc_id) ==
    [s EXCEPT !.id_to_index = DictSet(@, doc_id, Len(s.vectors) - 1)]

\* line 41
AddResetFlag(s) == [s EXCEPT !.index_built = FALSE]

\* ------------------------------------------------------------------- state
VARIABLES
    store,      \* a VectorStore instance
    file,       \* the file at the path given to save and load
    saved,      \* history: the fields of the store that save last wrote to file
    engine,     \* the SearchEngine instance
    files,      \* the four files at the prefix given to save_index and load_index
    saved_engine, \* history: the engine and the string hashing of the process
                \* at the last save_index, and whether it wrote all four files
    hash_seed,  \* the string hashing of the running interpreter (PYTHONHASHSEED)
    provider,   \* the embedding provider, a SentenceTransformerModel instance
    ret,        \* the call that has just returned to the caller: its name,
                \* arguments, exception, result and the receiver before the
                \* call; Idle between two calls
    adders,     \* per thread: the position and the local variables of its
                \* store.add call, and where its vector and metadata went
    overlapped  \* history: two add calls have been in flight at the same time

vars ==
    <<store, file, saved, engine, files, saved_engine, hash_seed, provider, ret,
      adders, overlapped>>

\* the record of a call
Call(op, exc, out, args, self) ==
    [op |-> op, exc |-> exc, out |-> out, args |-> args, self |-> self]

NoArgs == [vector |-> <<>>, top_k |-> 0, threshold |-> Frac(0, 1)]

Idle == Call("idle", "none", <<>>, NoArgs, <<>>)

Init ==
    /\ store = VectorStore(Dim)
    /\ file = NoFile
    /\ saved = VectorStore(Dim)
    /\ engine = SearchEngine(Dim)
    /\ files = NoFiles
    /\ saved_engine = [written |-> FALSE, engine |-> SearchEngine(Dim),
                       hash_seed |-> CHOOSE h \in HashSeeds : ~h.rev]
    /\ hash_seed = CHOOSE h \in HashSeeds : ~h.rev
    /\ provider = NoProvider
    /\ ret = Idle
    /\ adders = [t \in Threads |-> NotCalled]
    /\ overlapped = FALSE

\* store.add(vector, metadata, doc_id), the arguments drawn from calls
AddFrom(calls) ==
    \E c \in calls :
        LET r == AddOp(store, c[1], c[2], c[3])
        IN  /\ ret = Idle
            /\ Len(store.vectors) < MaxDocs
            /\ store' = r.st
            /\ ret' = Call("add", r.exc, <<>>, [NoArgs EXCEPT !.vector = c[1]], store)
            /\ UNCHANGED <<file, saved, engine, files, saved_engine, hash_seed, provider, adders, overlapped>>

Add == AddFrom({<<v, a[1], a[2]>> : v \in AddVectors, a \in MetaIdArgs})

\* store.build_index()
BuildIndex ==
    /\ ret = Idle
    /\ store' = BuildIndexOp(store)
    /\ ret' = Call("build_index", "none", <<>>, NoArgs, store)
    /\ UNCHANGED <<file, saved, engine, files, saved_engine, hash_seed, provider, adders, overlapped>>

\* store.search(query_vector, top_k, threshold)
SearchFrom(queries, top_ks, thresholds) ==
    \E q \in queries, top_k \in top_ks, threshold \in thresholds :
        LET r == SearchOp(store, q, top_k, threshold)
        IN  /\ ret = Idle
            /\ store' = r.st
            /\ ret' = Call("search", r.exc, r.out,
                           [vector |-> q, top_k |-> top_k, threshold |-> threshold],
                           store)
            /\ UNCHANGED <<file, saved, engine, files, saved_engine, hash_seed, provider, adders, overlapped>>

Search == SearchFrom(QueryVectors, TopKs, Thresholds)

\* the caller takes the result; the next call can start
Return ==
    /\ ret # Idle
    /\ ret' = Idle
    /\ UNCHANGED <<store, file, saved, engine, files, saved_engine, hash_seed, provider, adders, overlapped>>

Next == Add \/ BuildIndex \/ Search \/ Return

Spec == Init /\ [][Next]_vars

\* ---------------------------------------------- a VectorStore and its file
\* add calls of the persistence runs: default and explicit doc_id, a
\* metadata value json cannot serialize, a vector of the wrong length
PersistAdds ==
    {<<UnitVec(Dim, 1), [name |-> PyStr("m1")], <<>>>>,
     <<OnesVec(Dim), [name |-> PyStr("m2")], <<>>>>,
     <<OnesVec(Dim), [name |-> PyStr("m1")], << <<"doc", 1>> >> >>,
     <<UnitVec(Dim, 1), [name |-> PyDatetime("t1")], <<>>>>,
     <<OnesVec(Dim + 1), [name |-> PyStr("m1")], <<>>>>}

PersistAdd == AddFrom(PersistAdds)

PersistSearch == SearchFrom({UnitVec(Dim, 1), OnesVec(Dim)}, {1, MaxK}, {Frac(0, 1)})

\* the fields of a store that save writes, on an otherwise new instance
Persisted(s) ==
    [VectorStore(s.dimension) EXCEPT !.vectors = s.vectors,
                                     !.metadata = s.metadata,
                                     !.id_to_index = s.id_to_index]

\* store.save(path); returns None whatever happens
Save ==
    \E io \in SaveIO :
        /\ ret = Idle
        /\ file' = SaveOp(store, file, io)
        /\ saved' = IF file' = file THEN saved
                     ELSE IF file'.kind = "json" THEN Persisted(store)
                     ELSE VectorStore(Dim)
        /\ ret' = Call("save", "none", <<>>, NoArgs, store)
        /\ UNCHANGED <<store, engine, files, saved_engine, hash_seed, provider, adders, overlapped>>

\* store.load(path)
Load ==
    LET r == LoadOp(store, file)
    IN  /\ ret = Idle
        /\ store' = r.st
        /\ ret' = Call("load", "none", <<r.ok>>, NoArgs, store)
        /\ UNCHANGED <<file, saved, engine, files, saved_engine, hash_seed, provider, adders, overlapped>>

\* store = VectorStore(Dim): a new instance replaces the old one
Construct ==
    /\ ret = Idle
    /\ store' = VectorStore(Dim)
    /\ ret' = Call("construct", "none", <<>>, NoArgs, store)
    /\ UNCHANGED <<file, saved, engine, files, saved_engine, hash_seed, provider, adders, overlapped>>

PersistNext ==
    PersistAdd \/ BuildIndex \/ PersistSearch \/ Save \/ Load \/ Construct \/ Return

PersistSpec == Init /\ [][PersistNext]_vars

\* ------------------------------- a VectorStore and a file it did not write
\* JSON documents at the path that another program, or an older version of
\* this one, wrote: objects that lack keys of the dictionary `data`, for a
\* store of another dimension
ForeignFiles ==
    {[kind |-> "json", data |-> [vectors |-> << OnesVec(Dim + 1) >>]],
     [kind |-> "json", data |-> [dimension |-> Dim + 1]],
     [kind |-> "json", data |-> [dimension |-> Dim + 1, vectors |-> << OnesVec(Dim + 1) >>]],
     [kind |-> "json",
      data |-> [dimension |-> Dim + 1, vectors |-> << OnesVec(Dim + 1) >>,
                metadata |-> << JsonEncodeDict([name |-> PyStr("m3")]) >>]]}

\* the file at the path is replaced from outside
ForeignWrite ==
    \E f \in ForeignFiles :
        /\ ret = Idle
        /\ file' = f
        /\ saved' = VectorStore(Dim)
        /\ ret' = Call("foreign_write", "none", <<>>, NoArgs, store)
        /\ UNCHANGED <<store, engine, files, saved_engine, hash_seed, provider, adders, overlapped>>

\* add on a store that loads of such files have left with more metadata
\* than vectors: neither list is grown beyond MaxDocs
ForeignAdd == Len(store.metadata) < MaxDocs /\ PersistAdd

ForeignNext ==
    ForeignAdd \/ BuildIndex \/ PersistSearch \/ Save \/ Load \/ Construct
    \/ ForeignWrite \/ Return

ForeignSpec == Init /\ [][ForeignNext]_vars

\* ------------------------------------------------------- the SearchEngine
\* longest list handed to index_news, index_stocks, index_portfolio
MaxBatch == 2
\* the engine is not grown beyond this many documents in all
MaxIndexed == 2

RECURSIVE SeqsUpTo(_, _)
SeqsUpTo(S, n) ==
    IF n = 0 THEN {<<>>}
    ELSE LET shorter == SeqsUpTo(S, n - 1)
         IN  shorter \cup {Append(x, y) : x \in {z \in shorter : Len(z) = n - 1}, y \in S}

\* The dictionaries the caller hands to index_*: one Python object per
\* document, obj being the identity of the object (not a key of the
\* dictionary).  The caller indexes its stock record also as a holding.
NewsItems ==
    {[obj |-> "n1", title |-> <<"Apple", "earnings">>, summary |-> <<"apple">>],
     [obj |-> "n2", title |-> <<"Tesla">>, summary |-> <<>>]}

StockItems ==
    {[obj |-> "s1", name |-> <<"Apple">>, sector |-> <<"tech">>]}

PortfolioItems == StockItems

\* embeddings of the engine's dimension
Embeddings == {UnitVec(Dim, 1), OnesVec(Dim)}

\* embeddings lists handed to index_*: those of up to MaxBatch embeddings,
\* and those with an embedding of the wrong length in first or second place
EmbeddingLists ==
    SeqsUpTo(Embeddings, MaxBatch)
        \cup {Append(x, OnesVec(Dim + 1)) : x \in SeqsUpTo(Embeddings, 1)}

\* doc_types arguments of search: None and ['news']
DocTypeArgs == {<<>>, <<{"news"}>>}

EngineTopKs == {-1, 0, 1, MaxK}

Indexed(e) ==
    Len(e.news_store.vectors) + Len(e.stocks_store.vectors) + Len(e.portfolio_store.vectors)

\* index_news / index_stocks / index_portfolio (docs, embeddings); the two
\* lists are of the same length or one is longer by one
Index(category, items) ==
    \E docs \in SeqsUpTo(items, MaxBatch), embeddings \in EmbeddingLists :
        LET r == IndexLoop(engine, category, docs, embeddings, 0)
        IN  /\ ret = Idle
            /\ Len(docs) - Len(embeddings) \in {-1, 0, 1}
            /\ Indexed(engine) + Min(Len(docs), Len(embeddings)) <= MaxIndexed
            /\ engine' = r.st
            /\ ret' = Call("index", r.exc, <<>>,
                           [category |-> category, docs |-> docs, embeddings |-> embeddings],
                           engine)
            /\ UNCHANGED <<store, file, saved, files, saved_engine, hash_seed, provider, adders, overlapped>>

IndexNews == Index("news", NewsItems)

IndexStocks == Index("stock", StockItems)

IndexPortfolio == Index("portfolio", PortfolioItems)

\* search_engine.search(query, top_k, doc_types) in an interpreter whose
\* string hashing is seed; no state of the engine depends on the hashing,
\* so it is drawn with the call.  A search restricted to doc_types is made
\* with top_k = MaxK.
EngineSearch ==
    \E query \in Queries, top_k \in EngineTopKs, doc_types \in DocTypeArgs,
       seed \in HashSeeds :
        LET r == EngineSearchOp(engine, seed, query, top_k, doc_types)
        IN  /\ ret = Idle
            /\ doc_types # <<>> => top_k = MaxK
            /\ engine' = r.st
            /\ ret' = Call("engine_search", r.exc, r.out,
                           [query |-> query, top_k |-> top_k, doc_types |-> doc_types,
                            seed |-> seed],
                           engine)
            /\ UNCHANGED <<store, file, saved, files, saved_engine, hash_seed, provider, adders, overlapped>>

\* search_engine.get_stats()
GetStats ==
    LET r == GetStatsOp(engine)
    IN  /\ ret = Idle
        /\ engine' = r.st
        /\ ret' = Call("get_stats", "none", <<r.out>>, NoArgs, engine)
        /\ UNCHANGED <<store, file, saved, files, saved_engine, hash_seed, provider, adders, overlapped>>

EngineNext ==
    IndexNews \/ IndexStocks \/ IndexPortfolio \/ EngineSearch \/ GetStats \/ Return

EngineSpec == Init /\ [][EngineNext]_vars

\* --------------------------------------------- a SearchEngine and its files
\* documents of the persistence runs: one news item holds a datetime
PersistNewsItems ==
    {[obj |-> "n1", title |-> <<"Apple", "earnings">>, summary |-> <<"apple">>],
     [obj |-> "n3", title |-> <<"Tesla">>, summary |-> <<>>, published_at |-> "t1"]}

\* index_news / index_stocks (docs, embeddings) of the persistence runs:
\* one embedding per document, all of them the vector of ones of the
\* engine's dimension.  load_index keeps the postings in memory, so the
\* posting lists are bounded as well.
PersistIndex(category, items) ==
    \E docs \in SeqsUpTo(items, MaxBatch) \ {<<>>} :
        LET embeddings == [i \in 1..Len(docs) |-> OnesVec(engine.dimension)]
            r == IndexLoop(engine, category, docs, embeddings, 0)
        IN  /\ ret = Idle
            /\ Indexed(engine) + Len(docs) <= MaxIndexed
            /\ \A w \in DOMAIN r.st.keyword_index :
                  Len(r.st.keyword_index[w]) <= MaxIndexed
            /\ engine' = r.st
            /\ ret' = Call("index", r.exc, <<>>,
                           [category |-> category, docs |-> docs, embeddings |-> embeddings],
                           engine)
            /\ UNCHANGED <<store, file, saved, files, saved_engine, hash_seed, provider, adders, overlapped>>

PersistIndexNews == PersistIndex("news", PersistNewsItems)

PersistIndexStocks == PersistIndex("stock", StockItems)

\* search_engine.save_index(prefix) with a prefix at which no file exists
\* yet; returns None whatever happens
SaveIndex ==
    \E io \in SaveIndexIO :
        /\ ret = Idle
        /\ files = NoFiles
        /\ files' = SaveIndexOp(engine, files, io)
        /\ saved_engine' =
              [written |-> /\ io = AllOk
                           /\ \A k \in DOMAIN files' : files'[k].kind = "json",
               engine |-> engine, hash_seed |-> hash_seed]
        /\ ret' = Call("save_index", "none", <<>>, NoArgs, engine)
        /\ UNCHANGED <<store, file, saved, engine, hash_seed, provider, adders, overlapped>>

\* search_engine.load_index(prefix)
LoadIndex ==
    LET r == LoadIndexOp(engine, files)
    IN  /\ ret = Idle
        /\ engine' = r.st
        /\ ret' = Call("load_index", "none", <<r.ok>>, NoArgs, engine)
        /\ UNCHANGED <<store, file, saved, files, saved_engine, hash_seed, provider, adders, overlapped>>

\* dimensions of the embedding models in use
EngineDims == {Dim, Dim + 1}

\* search_engine = SearchEngine(dimension) in the running interpreter
EngineConstruct ==
    /\ ret = Idle
    /\ \E dimension \in EngineDims : engine' = SearchEngine(dimension)
    /\ ret' = Call("engine_construct", "none", <<>>, NoArgs, engine)
    /\ UNCHANGED <<store, file, saved, files, saved_engine, hash_seed, provider, adders, overlapped>>

\* the process ends and a new interpreter imports the module: a new global
\* search_engine and a new string hashing; the files stay
Restart ==
    /\ ret = Idle
    /\ \E h \in HashSeeds : hash_seed' = h
    /\ engine' = SearchEngine(Dim)
    /\ ret' = Call("restart", "none", <<>>, NoArgs, engine)
    /\ UNCHANGED <<store, file, saved, files, saved_engine, provider, adders, overlapped>>

EnginePersistNext ==
    \/ PersistIndexNews \/ PersistIndexStocks \/ SaveIndex \/ LoadIndex
    \/ EngineConstruct \/ Restart \/ Return

EnginePersistSpec == Init /\ [][EnginePersistNext]_vars

\* ------------------------------------------------- the embedding provider
\* texts handed to encode, as their words
Texts == {<<>>, <<"Apple">>, <<"Tesla">>, <<"Apple", "earnings">>}

\* longest list of texts handed to encode
MaxTexts == 2

\* provider = SentenceTransformerModel(model_name); a constructor that
\* raises leaves the old instance in place
ProviderConstruct ==
    \E model_name \in ModelNames, load \in LoadOutcomes :
        LET r == ProviderInit(model_name, load)
        IN  /\ ret = Idle
            /\ provider' = IF r.exc = "none" THEN r.p ELSE provider
            /\ ret' = Call("provider_construct", r.exc, <<r.p>>,
                           [model_name |-> model_name, load |-> load], provider)
            /\ UNCHANGED <<store, file, saved, engine, files, saved_engine, hash_seed, adders, overlapped>>

\* provider.encode(texts)
Encode ==
    \E texts \in SeqsUpTo(Texts, MaxTexts), seed \in HashSeeds :
        /\ ret = Idle
        /\ provider # NoProvider
        /\ ret' = Call("encode", "none", <<ProviderEncode(provider, seed.salt, texts)>>,
                       [texts |-> texts, seed |-> seed], provider)
        /\ UNCHANGED <<store, file, saved, engine, files, saved_engine, hash_seed, provider, adders, overlapped>>

\* provider.get_dimension()
GetDimension ==
    \E reported \in {<<>>, <<Dim + 1>>} :
        /\ ret = Idle
        /\ provider # NoProvider
        /\ ret' = Call("get_dimension", "none", <<ProviderDimension(provider, reported)>>,
                       [reported |-> reported], provider)
        /\ UNCHANGED <<store, file, saved, engine, files, saved_engine, hash_seed, provider, adders, overlapped>>

EmbeddingNext == ProviderConstruct \/ Encode \/ GetDimension \/ Return

EmbeddingSpec == Init /\ [][EmbeddingNext]_vars

\* ------------------------------------- threads that call VectorStore.add
\* A thread runs the statements of add one at a time; between two
\* statements the interpreter may switch to another thread.  No lock is
\* taken by add or by the callers.
InFlight(t) == adders[t].pc \notin {"idle", "done"}

\* thread t calls store.add(vector, metadata, doc_id)
AddCall(t) ==
    \E vector \in ThreadVectors, doc_id \in ThreadDocIds(t) :
        /\ adders[t].pc = "idle"
        /\ adders' = [adders EXCEPT ![t] = [NotCalled EXCEPT !.pc = "line31",
                                                            !.vector = vector,
                                                            !.metadata = ThreadMetadata(t),
                                                            !.doc_id = doc_id]]
        /\ overlapped' = (overlapped \/ \E u \in Threads \ {t} : InFlight(u))
        /\ UNCHANGED <<store, file, saved, engine, files, saved_engine, hash_seed,
                       provider, ret>>

\* if len(vector) != self.dimension: raise ValueError
AddLine31(t) ==
    /\ adders[t].pc = "line31"
    /\ adders' = [adders EXCEPT ![t] =
                     IF AddDimensionOk(store, adders[t].vector)
                     THEN [@ EXCEPT !.pc = "line35"]
                     ELSE [@ EXCEPT !.pc = "done", !.exc = "ValueError"]]
    /\ UNCHANGED <<store, file, saved, engine, files, saved_engine, hash_seed,
                   provider, ret, overlapped>>

\* if doc_id is None: doc_id = f"doc_{len(self.vectors)}"
AddLine35(t) ==
    /\ adders[t].pc = "line35"
    /\ adders' = [adders EXCEPT ![t] = [@ EXCEPT !.pc = "line38",
                                                 !.doc_id = AddDocId(store, @)]]
    /\ UNCHANGED <<store, file, saved, engine, files, saved_engine, hash_seed,
                   provider, ret, overlapped>>

\* self.vectors.append(vector)
AddLine38(t) ==
    /\ adders[t].pc = "line38"
    /\ store' = AddAppendVector(store, adders[t].vector)
    /\ adders' = [adders EXCEPT ![t] = [@ EXCEPT !.pc = "line39",
                                                 !.vpos = Len(store'.vectors)]]
    /\ UNCHANGED <<file, saved, engine, files, saved_engine, hash_seed,
                   provider, ret, overlapped>>

\* self.metadata.append(metadata)
AddLine39(t) ==
    /\ adders[t].pc = "line39"
    /\ store' = AddAppendMetadata(store, adders[t].metadata)
    /\ adders' = [adders EXCEPT ![t] = [@ EXCEPT !.pc = "line40",
                                                 !.mpos = Len(store'.metadata)]]
    /\ UNCHANGED <<file, saved, engine, files, saved_engine, hash_seed,
                   provider, ret, overlapped>>

\* self.id_to_index[doc_id] = len(self.vectors) - 1
AddLine40(t) ==
    /\ adders[t].pc = "line40"
    /\ store' = AddSetIndex(store, adders[t].doc_id[1])
    /\ adders' = [adders EXCEPT ![t] = [@ EXCEPT !.pc = "line41"]]
    /\ UNCHANGED <<file, saved, engine, files, saved_engine, hash_seed,
                   provider, ret, overlapped>>

\* self.index_built = False, and the call returns
AddLine41(t) ==
    /\ adders[t].pc = "line41"
    /\ store' = AddResetFlag(store)
    /\ adders' = [adders EXCEPT ![t] = [@ EXCEPT !.pc = "done"]]
    /\ UNCHANGED <<file, saved, engine, files, saved_engine, hash_seed,
                   provider, ret, overlapped>>

ThreadsNext ==
    \E t \in Threads :
        \/ AddCall(t) \/ AddLine31(t) \/ AddLine35(t) \/ AddLine38(t)
        \/ AddLine39(t) \/ AddLine40(t) \/ AddLine41(t)

ThreadsSpec == Init /\ [][ThreadsNext]_vars

\* ------------------------------------------------------ the TextProcessor
\* text_processor.preprocess_text(text)
Preprocess ==
    \E text \in SeqsUpTo(Chars, MaxChars) :
        /\ ret = Idle
        /\ ret' = Call("preprocess_text", "none", <<PreprocessText(text)>>,
                       [text |-> text], <<>>)
        /\ UNCHANGED <<store, file, saved, engine, files, saved_engine, hash_seed,
                       provider, adders, overlapped>>

TextNext == Preprocess \/ Return

TextSpec == Init /\ [][TextNext]_vars

\* ------------------------------------------------- claims on a VectorStore
IsSearch == ret.op = "search"

\* the part of a store that add is specified to leave alone on failure
Contents(s) == <<s.vectors, s.metadata, s.id_to_index, s.index_built>>

\* C1: add raises and leaves vectors, metadata, id_to_index and index_built
\* unchanged when len(vector) # dimension; otherwise it succeeds and
\* len(vectors) grows by exactly 1.
C1_AddChecksDimension ==
    [][ret'.op = "add" =>
         IF Len(ret'.args.vector) # store.dimension
         THEN ret'.exc = "ValueError" /\ Contents(store') = Contents(store)
         ELSE ret'.exc = "none" /\ Len(store'.vectors) = Len(store.vectors) + 1]_vars

\* an add of a vector of the wrong length has been rejected by a store that
\* already holds entries
C1_Witness ==
    /\ ret.op = "add"
    /\ ret.exc = "ValueError"
    /\ Len(ret.args.vector) # store.dimension
    /\ Len(store.vectors) > 0

\* the reference result of search(q, top_k, threshold), computed from the
\* stored vectors by rank instead of by sorting
RefQualifying(s, q, threshold) ==
    {i \in 1..Len(s.vectors) : ScoreGE(Cosine(s.vectors[i], q), threshold)}

RefRank(s, q, threshold, i) ==
    Cardinality({j \in RefQualifying(s, q, threshold) :
                    \/ ScoreGT(Cosine(s.vectors[j], q), Cosine(s.vectors[i], q))
                    \/ /\ Cosine(s.vectors[j], q) = Cosine(s.vectors[i], q)
                       /\ j <= i})

RefResult(s, q, top_k, threshold) ==
    [p \in 1..Min(top_k, Cardinality(RefQualifying(s, q, threshold))) |->
        LET i == CHOOSE j \in RefQualifying(s, q, threshold) :
                     RefRank(s, q, threshold, j) = p
        IN  <<Cosine(s.vectors[i], q), s.metadata[i]>>]

\* C5: on a non-empty store and a non-zero query of the store's dimension,
\* search(q, top_k, threshold) with top_k >= 0 returns the entries with
\* cosine >= threshold, by score descending, equal scores in insertion
\* order, cut to top_k; no returned score is below threshold.
C5_SearchIsReference ==
    (/\ IsSearch
     /\ Len(store.vectors) > 0
     /\ NormSq(ret.args.vector) # 0
     /\ Len(ret.args.vector) = store.dimension
     /\ ret.args.top_k >= 0)
    => /\ ret.exc = "none"
       /\ ret.out = RefResult(store, ret.args.vector, ret.args.top_k, ret.args.threshold)
       /\ \A i \in 1..Len(ret.out) : ScoreGE(ret.out[i][1], ret.args.threshold)

\* a search with threshold 0.5 and top_k = 2 returned a single entry from a
\* store of two: the other one is below the threshold
C5_Witness ==
    /\ IsSearch
    /\ ret.args.threshold = Frac(1, 4)
    /\ ret.args.top_k = 2
    /\ Len(store.vectors) = 2
    /\ Len(ret.out) = 1

\* C6: for top_k >= 0 search returns at most top_k pairs, and none when
\* top_k = 0.
C6_AtMostTopK ==
    (IsSearch /\ ret.args.top_k >= 0)
    => /\ Len(ret.out) <= ret.args.top_k
       /\ ret.args.top_k = 0 => ret.out = <<>>

\* a search with top_k = 1 returned one pair although two entries qualify
C6_Witness ==
    /\ IsSearch
    /\ ret.args.top_k = 1
    /\ Len(ret.out) = 1
    /\ NormSq(ret.args.vector) # 0
    /\ Len(ret.args.vector) = store.dimension
    /\ Cardinality(RefQualifying(store, ret.args.vector, ret.args.threshold)) = 2

\* C7: search with top_k <= 0, negative values included, returns the empty
\* list.  (The slice results[:top_k] with top_k < 0 drops the last -top_k
\* results instead.)
C7_NonPositiveTopKEmpty ==
    (IsSearch /\ ret.args.top_k <= 0) => ret.out = <<>>

\* C8: search returns the empty list without raising when the store holds
\* no vectors or the query is all zeros, and a search on an empty store
\* leaves index_built false.
C8_EmptyOrZeroQuery ==
    /\ (IsSearch /\ (Len(store.vectors) = 0 \/ NormSq(ret.args.vector) = 0))
       => (ret.exc = "none" /\ ret.out = <<>>)
    /\ (IsSearch /\ Len(store.vectors) = 0) => ~store.index_built

\* an all-zero query has been answered by a store that holds entries
C8_Witness ==
    /\ IsSearch
    /\ NormSq(ret.args.vector) = 0
    /\ Len(store.vectors) > 0
    /\ ret.out = <<>>

\* the search that has just returned asked for the vector added last, a
\* non-zero one, with top_k >= 1
SelfSearch ==
    /\ IsSearch
    /\ Len(store.vectors) > 0
    /\ ret.args.vector = store.vectors[Len(store.vectors)]
    /\ NormSq(ret.args.vector) # 0
    /\ ret.args.top_k >= 1

\* the places of the stored vectors with cosine 1 to the query
Ties == {i \in 1..Len(store.vectors) : Cosine(store.vectors[i], ret.args.vector) = Frac(1, 1)}

C20_BuildIndexIdempotent ==
    /\ BuildIndexOp(BuildIndexOp(store)) = BuildIndexOp(store)
    /\ ret.op = "build_index" =>
          /\ ret.exc = "none"
          /\ BuildIndexOp(store) = store
          /\ Len(ret.self.vectors) = 0 => (store = ret.self /\ ~store.index_built)

\* build_index has returned on a store whose index was already built
C20_Witness ==
    /\ ret.op = "build_index"
    /\ ret.self.index_built
    /\ Len(store.vectors) > 0
    /\ store = ret.self

\* the entries of a store whose vector has a non-zero norm, in order
NonZeroEntries(s) ==
    LET all == [i \in 1..Len(s.vectors) |-> i]
        idx == SelectSeq(all, LAMBDA i : NormSq(s.vectors[i]) # 0)
    IN  [rows |-> [k \in 1..Len(idx) |-> s.vectors[idx[k]]],
         metadata |-> [k \in 1..Len(idx) |-> s.metadata[idx[k]]]]

\* the search that has just returned had a non-zero query of the store's
\* dimension and the store holds a vector of zero norm
ZeroNormSearch ==
    /\ IsSearch
    /\ NormSq(ret.args.vector) # 0
    /\ Len(ret.args.vector) = store.dimension
    /\ \E i \in 1..Len(store.vectors) : NormSq(store.vectors[i]) = 0

\* C22: when the store holds vectors of zero norm, search with a non-zero
\* query raises nothing, every returned pair is a stored entry of non-zero
\* norm with its cosine, and the result is the one the store gives without
\* its zero-norm entries.
C22_ZeroNormEntriesSkipped ==
    ZeroNormSearch =>
        LET nz == NonZeroEntries(store)
        IN  /\ ret.exc = "none"
            /\ \A p \in 1..Len(ret.out) :
                  /\ ~IsNaN(ret.out[p][1])
                  /\ \E k \in 1..Len(nz.rows) :
                        ret.out[p] = <<Cosine(nz.rows[k], ret.args.vector), nz.metadata[k]>>
            /\ ret.out = Ranked(nz.rows, nz.metadata, ret.args.vector,
                                ret.args.top_k, ret.args.threshold)

\* a store of a zero vector followed by a non-zero one has answered a
\* search with top_k = 2 and threshold 0 with the non-zero entry alone
C22_Witness ==
    /\ ZeroNormSearch
    /\ Len(store.vectors) = 2
    /\ NormSq(store.vectors[1]) = 0
    /\ NormSq(store.vectors[2]) # 0
    /\ ret.args.top_k = 2
    /\ ret.args.threshold = Frac(0, 1)
    /\ ret.out = << <<Cosine(store.vectors[2], ret.args.vector), store.metadata[2]>> >>

\* the add call of thread t has returned normally
Added(t) == adders[t].pc = "done" /\ adders[t].exc = "none"

\* the metadata of thread t's document sits at the place of its vector
Aligned(t) ==
    /\ adders[t].mpos = adders[t].vpos
    /\ store.vectors[adders[t].vpos] = adders[t].vector
    /\ store.metadata[adders[t].vpos] = adders[t].metadata

\* id_to_index leads from the doc_id of thread t's document to its vector
Registered(t) ==
    /\ adders[t].doc_id[1] \in DOMAIN store.id_to_index
    /\ store.id_to_index[adders[t].doc_id[1]] = adders[t].vpos - 1

\* C23: add is not atomic.  As long as no two add calls have run at the
\* same time, every document added has its metadata at the place of its
\* vector and id_to_index[doc_id] is that place; the witness below is the
\* state that interleaved calls reach and serialized calls do not.
C23_SerializedAddsAligned ==
    ~overlapped =>
        /\ \A t \in Threads : Added(t) => (Aligned(t) /\ Registered(t))
        /\ (\A t \in Threads : ~InFlight(t)) => Len(store.vectors) = Len(store.metadata)

\* two add calls were interleaved and both have returned: the metadata of
\* one document is not at the place of its vector, and id_to_index leads
\* from the doc_id of one document to another place
C23_Witness ==
    /\ overlapped
    /\ \A t \in Threads : adders[t].pc \in {"idle", "done"}
    /\ \E t \in Threads : Added(t) /\ ~Aligned(t)
    /\ \E t \in Threads : Added(t) /\ ~Registered(t)

\* ------------------------------------- claims on a VectorStore and its file
\* C3: save(path) followed by load(path) into a freshly constructed store of
\* the same dimension (the save having written the file) gives a store with
\* the same dimension, vectors, metadata and id_to_index, and search(q, k)
\* returns the same list as on the saved store, built or not, for every
\* query, top_k and threshold.
C3_SaveLoadRoundTrip ==
    (/\ ret.op = "load"
     /\ file.kind = "json"
     /\ ret.self = VectorStore(saved.dimension))
    => /\ ret.out = <<TRUE>>
       /\ store.dimension = saved.dimension
       /\ store.vectors = saved.vectors
       /\ store.metadata = saved.metadata
       /\ store.id_to_index = saved.id_to_index
       /\ \A q \in QueryVectors, top_k \in TopKs, threshold \in Thresholds :
            \A orig \in {saved, BuildIndexOp(saved)} :
               /\ SearchOp(store, q, top_k, threshold).out
                    = SearchOp(orig, q, top_k, threshold).out
               /\ SearchOp(store, q, top_k, threshold).exc
                    = SearchOp(orig, q, top_k, threshold).exc

\* a new store has loaded a file that holds two documents under one doc_id
C3_Witness ==
    /\ ret.op = "load"
    /\ ret.self = VectorStore(Dim)
    /\ ret.out = <<TRUE>>
    /\ Len(store.vectors) = 2
    /\ Cardinality(DOMAIN store.id_to_index) = 1

SaveFailed == ret.op = "save" /\ file # JsonFile(ret.self)

\* C13: save and load raise nothing on an I/O or parse failure; each
\* returns false when it failed, and load returns true exactly when the
\* whole file was read and applied.  (save has no return statement: its
\* result is None after a failure and after a success alike.)
C13_FailuresReturnFalse ==
    /\ ret.op \in {"save", "load"} => ret.exc = "none"
    /\ SaveFailed => ret.out = <<FALSE>>
    /\ ret.op = "load" =>
          (ret.out = <<TRUE>> <=>
              /\ file.kind = "json"
              /\ Persisted(store) = Persisted(LoadOp(VectorStore(Dim), file).st))

\* C28: a load that returns false leaves dimension, vectors, metadata,
\* id_to_index and index_built as they were before the call.  (The four
\* assignments run one after the other, and a key the file lacks stops
\* load after the assignments before it.)
C28_FailedLoadChangesNothing ==
    (ret.op = "load" /\ ret.out = <<FALSE>>) =>
        /\ ret.exc = "none"
        /\ store.dimension = ret.self.dimension
        /\ Contents(store) = Contents(ret.self)

\* ------------------------------------------------ claims on a SearchEngine
IsEngineSearch == ret.op = "engine_search"

\* the candidates of the search that has just returned
VecCands ==
    VectorCandidates(ret.self, ret.args.seed, ret.args.query, ret.args.top_k,
                     ret.args.doc_types).out

KwCands == KeywordSearch(ret.self, ret.args.seed, ret.args.query, ret.args.top_k)

\* the documents of a list of (score, document) pairs
DocsOf(pairs) == {pairs[i][2] : i \in 1..Len(pairs)}

\* the places of a document in a list of pairs, and its scores there
Occurrences(pairs, doc) == {i \in 1..Len(pairs) : pairs[i][2] = doc}

ScoresOf(pairs, doc) == {pairs[i][1] : i \in Occurrences(pairs, doc)}

MaxScore(scores) == CHOOSE x \in scores : \A y \in scores : ScoreGE(x, y)

StoreFields == {"news_store", "stocks_store", "portfolio_store"}

\* every doc_id of a store belongs to one document and leads to it
DocIdsUniqueIn(e) ==
    \A f \in StoreFields :
        LET s == e[f]
        IN  /\ \A i, j \in 1..Len(s.metadata) :
                  i # j => s.metadata[i].doc_id # s.metadata[j].doc_id
            /\ \A i \in 1..Len(s.metadata) :
                  /\ s.metadata[i].doc_id \in DOMAIN s.id_to_index
                  /\ s.id_to_index[s.metadata[i].doc_id] = i - 1

\* C2 as stated, already for top_k >= 1 and an engine whose doc_ids are
\* unique: a document that is a candidate of both the vector search of its
\* store and the keyword search is returned exactly once, with the maximum
\* of its candidate scores.
C2_ReturnedExactlyOnce ==
    (IsEngineSearch /\ ret.args.top_k >= 1 /\ DocIdsUniqueIn(ret.self)) =>
        LET vec == VecCands
            kw  == KwCands
        IN  \A doc \in DocsOf(vec) \cap DocsOf(kw) :
                /\ Cardinality(Occurrences(ret.out, doc)) = 1
                /\ \A i \in Occurrences(ret.out, doc) :
                      ret.out[i][1] = MaxScore(ScoresOf(vec \o kw, doc))

\* C2 as amended: such a document is returned at most once and, when it is
\* returned, with the maximum of its candidate scores; it is returned
\* whenever the candidates carry no more than top_k distinct doc_ids and no
\* other candidate document has its doc_id.
C2_ReturnedAtMostOnce ==
    IsEngineSearch =>
        LET vec == VecCands
            kw  == KwCands
            all == vec \o kw
        IN  \A doc \in DocsOf(vec) \cap DocsOf(kw) :
                /\ Cardinality(Occurrences(ret.out, doc)) <= 1
                /\ \A i \in Occurrences(ret.out, doc) :
                      ret.out[i][1] = MaxScore(ScoresOf(all, doc))
                /\ (/\ Cardinality({d.doc_id : d \in DocsOf(all)}) <= ret.args.top_k
                    /\ \A d \in DocsOf(all) : d.doc_id = doc.doc_id => d = doc)
                   => Cardinality(Occurrences(ret.out, doc)) = 1

\* a document proposed by both searches with two different scores has been
\* returned, and the keyword score is the one it carries
C2_Witness ==
    /\ IsEngineSearch
    /\ LET vec == VecCands
           kw  == KwCands
       IN  \E doc \in DocsOf(vec) \cap DocsOf(kw) :
              /\ Cardinality(ScoresOf(vec \o kw, doc)) = 2
              /\ \E i \in Occurrences(ret.out, doc) :
                    /\ ret.out[i] \in {kw[j] : j \in 1..Len(kw)}
                    /\ \A v \in ScoresOf(vec, doc) : ScoreGT(ret.out[i][1], v)

IsIndex == ret.op = "index"

\* C4: an index_* call whose docs and embeddings differ in length fails with
\* an error and indexes nothing.  (zip pairs the first min(len, len) items
\* and the call returns normally.)
C4_LengthMismatchFails ==
    (IsIndex /\ Len(ret.args.docs) # Len(ret.args.embeddings))
    => (ret.exc # "none" /\ engine = ret.self)

\* C9: no two documents of one category store have the same doc_id, and
\* each doc_id still leads to the document it was assigned to.  (Every
\* index_* call numbers its documents from 0 again.)
C9_DocIdsUnique == DocIdsUniqueIn(engine)

\* C14: for top_k >= 0 the list returned by SearchEngine.search has at most
\* top_k entries, is in non-increasing score order and holds no two entries
\* with the same doc_id.
C14_SearchResultShape ==
    (IsEngineSearch /\ ret.args.top_k >= 0) =>
        /\ Len(ret.out) <= ret.args.top_k
        /\ \A i, j \in 1..Len(ret.out) :
              i < j => /\ ScoreGE(ret.out[i][1], ret.out[j][1])
                       /\ ret.out[i][2].doc_id # ret.out[j][2].doc_id

\* a search with top_k = 2 returned two entries from candidates that were
\* not in score order and named one doc_id twice
C14_Witness ==
    /\ IsEngineSearch
    /\ ret.args.top_k = 2
    /\ Len(ret.out) = 2
    /\ LET all == VecCands \o KwCands
       IN  \E i, j \in 1..Len(all) :
              /\ i < j
              /\ ScoreGT(all[j][1], all[i][1])
              /\ \E k \in 1..Len(all) : k # i /\ all[k][2].doc_id = all[i][2].doc_id

Categories == {"news", "stock", "portfolio"}

\* C15: every metadata record of a category store, and so every record
\* that search returns, carries a doc_id and a doc_type, and the doc_type
\* is the category of the store that holds it.  (A dictionary handed to
\* two index_* calls is one object in two stores and carries the tags of
\* the later call.)
C15_DocTypeIsCategory ==
    /\ \A c \in Categories :
          \A i \in 1..Len(engine[StoreOf(c)].metadata) :
             LET m == engine[StoreOf(c)].metadata[i]
             IN  {"doc_id", "doc_type"} \subseteq DOMAIN m /\ m.doc_type = c
    /\ IsEngineSearch =>
          \A i \in 1..Len(ret.out) : {"doc_id", "doc_type"} \subseteq DOMAIN ret.out[i][2]

\* from store s to store t the lists have only grown at the end, and t
\* holds as many metadata records as vectors
AppendOnlyStep(s, t) ==
    /\ Len(t.vectors) = Len(t.metadata)
    /\ Len(t.vectors) >= Len(s.vectors)
    /\ \A i \in 1..Len(s.vectors) :
          t.vectors[i] = s.vectors[i] /\ t.metadata[i] = s.metadata[i]

\* the entries that the index_* call just returned has appended are its
\* (document, embedding) pairs, in order
AppendedPairs ==
    LET s == ret.self[StoreOf(ret.args.category)]
        t == engine[StoreOf(ret.args.category)]
    IN  \A k \in 1..(Len(t.vectors) - Len(s.vectors)) :
            /\ t.vectors[Len(s.vectors) + k] = ret.args.embeddings[k]
            /\ t.metadata[Len(s.vectors) + k].obj = ret.args.docs[k].obj

\* C19: in every store len(vectors) = len(metadata), position i of metadata
\* is the document added together with vectors[i], and add, index_*,
\* build_index and search only append: the entries stored before keep
\* their positions and values.  (index_* retags a dictionary that a store
\* already holds when the caller hands it in again.)
C19_AppendOnly ==
    [][/\ AppendOnlyStep(store, store')
       /\ \A f \in StoreFields : AppendOnlyStep(engine[f], engine'[f])
       /\ ret'.op = "index" => AppendedPairs']_vars

\* doc_scores of the keyword search that has just returned: its (doc_id,
\* count) items; the score of a doc_id is count / len(query_words)
KwCounts ==
    DocScores(ret.self.keyword_index,
              WordOrder(LowerWords(ret.args.query), ret.args.seed.rev), 1, <<>>)

\* the distinct query tokens whose posting list names the doc_id
MatchedTokens(index, query, doc_id) ==
    {w \in LowerWords(query) \cap DOMAIN index :
        \E j \in 1..Len(index[w]) : index[w][j] = doc_id}

\* C11: the keyword score of every candidate doc_id is the number of
\* distinct query tokens the doc_id matches, divided by the number of
\* distinct query tokens, and so lies in (0, 1].  (doc_scores is increased
\* once per posting, and a doc_id that two index_* calls assigned stands
\* twice in a posting list.)
C11_KeywordScoreCountsDistinctTokens ==
    IsEngineSearch =>
        LET n == Cardinality(LowerWords(ret.args.query))
        IN  \A j \in 1..Len(KwCounts) :
                /\ KwCounts[j][2]
                     = Cardinality(MatchedTokens(ret.self.keyword_index, ret.args.query,
                                                 KwCounts[j][1]))
                /\ 0 < KwCounts[j][2]
                /\ KwCounts[j][2] <= n

\* C21: get_stats changes no state of the engine (stores, index_built
\* flags, keyword index); its total_documents is news_documents +
\* stock_documents + portfolio_documents, each the number of vectors of its
\* store, and its unique_keywords is the number of tokens of the keyword
\* index.
C21_GetStatsReadOnly ==
    ret.op = "get_stats" =>
        LET stats == ret.out[1]
        IN  /\ ret.exc = "none"
            /\ engine = ret.self
            /\ stats.news_documents = Len(engine.news_store.vectors)
            /\ stats.stock_documents = Len(engine.stocks_store.vectors)
            /\ stats.portfolio_documents = Len(engine.portfolio_store.vectors)
            /\ stats.total_documents
                 = stats.news_documents + stats.stock_documents + stats.portfolio_documents
            /\ stats.unique_keywords = Cardinality(DOMAIN engine.keyword_index)

\* get_stats has returned on an engine that holds a news item and a stock,
\* the index of one store built and that of another not
C21_Witness ==
    /\ ret.op = "get_stats"
    /\ ret.out[1].total_documents = 2
    /\ ret.out[1].news_documents = 1
    /\ ret.out[1].stock_documents = 1
    /\ ret.out[1].unique_keywords >= 2
    /\ \E f, g \in StoreFields : engine[f].index_built /\ ~engine[g].index_built
                                  /\ Len(engine[g].vectors) > 0

\* C24: each index_* call writes only its own category: the two other
\* stores are as before the call, and index_portfolio leaves the keyword
\* index as it was, so that the keyword index is the only state index_news
\* and index_stocks both write.  (A dictionary that another store already
\* holds is retagged inside that store.)
C24_IndexWritesOwnCategory ==
    IsIndex =>
        /\ \A c \in Categories \ {ret.args.category} :
              engine[StoreOf(c)] = ret.self[StoreOf(c)]
        /\ engine.dimension = ret.self.dimension
        /\ ret.args.category = "portfolio" => engine.keyword_index = ret.self.keyword_index

\* C25: search(query, top_k, doc_types) with doc_types given returns only
\* documents whose doc_type is in doc_types, and the candidates of the
\* keyword search are of the requested categories as well.
\* (_keyword_search is not told the doc_types and probes all three stores.)
C25_DocTypesRestrictResults ==
    (IsEngineSearch /\ ret.args.doc_types # <<>>) =>
        /\ \A i \in 1..Len(ret.out) : ret.out[i][2].doc_type \in ret.args.doc_types[1]
        /\ \A i \in 1..Len(KwCands) : KwCands[i][2].doc_type \in ret.args.doc_types[1]

\* the words of the text fields that index_* of category c reads from doc
IndexedWords(c, doc) ==
    IF TextFields(c) = <<>> THEN {}
    ELSE LowerWords(Get(doc, TextFields(c)[1]) \o Get(doc, TextFields(c)[2]))

\* C26: every document that the keyword search contributes is a document
\* whose text produced a posting of the query: it is held by a store whose
\* indexed text fields of it contain at least one query token.  (The
\* doc_ids start at 0 again in every index_* call, C9, and a posting leads
\* to the document that got the doc_id last.)
C26_KeywordHitContainsToken ==
    IsEngineSearch =>
        \A i \in 1..Len(KwCands) :
            \E c \in Categories :
                /\ \E k \in 1..Len(engine[StoreOf(c)].metadata) :
                      engine[StoreOf(c)].metadata[k] = KwCands[i][2]
                /\ IndexedWords(c, KwCands[i][2]) \cap LowerWords(ret.args.query) # {}

\* ------------------------------------ claims on a SearchEngine and its files
IsLoadIndex == ret.op = "load_index"

\* the file of each category store
FileOf == [news_store |-> "news", stocks_store |-> "stocks", portfolio_store |-> "portfolio"]

\* the boolean that the load of one category store returned inside the
\* load_index that has just returned
StoreLoadOk(f) == EngineStoreLoad(ret.self[f], files[FileOf[f]]).ok

\* C12: load_index returns true only if the loads of all three category
\* stores and of the keyword index succeeded.  (The booleans returned by
\* the three store loads are not looked at.)
C12_LoadIndexReportsStoreFailure ==
    (IsLoadIndex /\ ret.out = <<TRUE>>) =>
        /\ \A f \in StoreFields : StoreLoadOk(f)
        /\ files.keywords.kind = "json"

\* the list that search returns, as the caller compares it: scores and
\* dictionaries by value
Found(e, seed, query, top_k, doc_types) ==
    LET r == EngineSearchOp(e, seed, query, top_k, doc_types)
    IN  <<r.exc, [i \in 1..Len(r.out) |-> <<r.out[i][1], PyDict(r.out[i][2])>>]>>

\* the fields of a category store that save writes, dictionaries by value
StoreContent(s) ==
    LET t == PyStore(s) IN <<t.dimension, t.vectors, t.metadata, t.id_to_index>>

\* a load_index into a freshly constructed engine has just returned, and
\* the four files are those that the last save_index wrote
RoundTripDone ==
    /\ IsLoadIndex
    /\ saved_engine.written
    /\ ret.self = SearchEngine(saved_engine.engine.dimension)

\* C16: save_index followed by load_index on a freshly constructed engine
\* of the same dimension reproduces the three stores and the keyword
\* index, and search(query, top_k, doc_types) returns on the loaded engine
\* the list it returned on the saved engine, for every query.  (The query
\* embedding is built from hash() of a str, which differs between the
\* process that saved and a process started later.)
C16_SaveLoadIndexRoundTrip ==
    RoundTripDone =>
        /\ ret.out = <<TRUE>>
        /\ \A f \in StoreFields :
              StoreContent(engine[f]) = StoreContent(saved_engine.engine[f])
        /\ engine.keyword_index = saved_engine.engine.keyword_index
        /\ \A query \in Queries, top_k \in EngineTopKs, doc_types \in DocTypeArgs :
              Found(engine, hash_seed, query, top_k, doc_types)
                = Found(saved_engine.engine, saved_engine.hash_seed, query, top_k, doc_types)

\* C27: after a load_index that returned true the keyword index is the one
\* of the file: tokens and postings that were in memory and are not in the
\* file are gone; and every store whose load succeeded holds the documents
\* of its file and no others.  (dict.update keeps the tokens the file does
\* not name.)
C27_LoadIndexReplacesKeywords ==
    (IsLoadIndex /\ ret.out = <<TRUE>>) =>
        /\ engine.keyword_index = KeywordsOf(files.keywords)
        /\ \A f \in StoreFields :
              StoreLoadOk(f) =>
                  StoreContent(engine[f])
                    = StoreContent(EngineStoreLoad(VectorStore(Dim), files[FileOf[f]]).st)

\* C29: the dimension of each of the three stores is the dimension of the
\* engine and every stored vector has that length, so that the query
\* embedding of search has the length of the stored vectors.  (load takes
\* the dimension of the store from the file.)
C29_DimensionsAgree ==
    \A f \in StoreFields :
        /\ engine[f].dimension = engine.dimension
        /\ \A i \in 1..Len(engine[f].vectors) :
              /\ Len(engine[f].vectors[i]) = engine.dimension
              /\ \A seed \in HashSeeds, query \in Queries :
                    Len(QueryEmbedding(engine, seed, query)) = Len(engine[f].vectors[i])

\* --------------------------------------- claims on the embedding provider
\* C17: constructing SentenceTransformerModel raises nothing when the model
\* cannot be loaded, whatever the cause; the instance then delegates to the
\* stub and its model_name is "simple".  (Only ImportError is caught.)
C17_ConstructorFallsBack ==
    (ret.op = "provider_construct" /\ ret.args.load # "loaded") =>
        /\ ret.exc = "none"
        /\ provider.model = "SimpleEmbeddingModel"
        /\ provider.model_name = "simple"

\* ------------------------------------------ claims on the TextProcessor
\* C30: preprocess_text is idempotent and its output is normalized:
\* preprocess_text(preprocess_text(t)) = preprocess_text(t), and the output
\* never holds two consecutive spaces.  (The special characters are
\* removed after the whitespace has been collapsed, so the two spaces
\* around a removed character stay.)
C30_PreprocessIdempotent ==
    ret.op = "preprocess_text" =>
        LET out == ret.out[1]
        IN  /\ PreprocessText(out) = out
            /\ \A i \in 1..(Len(out) - 1) : ~(out[i] = " " /\ out[i + 1] = " ")

====
